---- MODULE Spec2Model ----
(***************************************************************************)
(* The order / catalog REST backend of src/api: the relational store       *)
(* (Product, Order, OrderItem), the DRF views of src/api/views.py with     *)
(* their permission classes and querysets, and the create/update           *)
(* transaction of OrderCreateSerializer (src/api/serializers.py).          *)
(*                                                                         *)
(* Each HTTP worker handles one request at a time.  A request that issues  *)
(* several database statements is one action per statement, so statements  *)
(* of concurrent requests interleave.  Statements inside                   *)
(* transaction.atomic() are buffered in the worker (invisible to others)   *)
(* and applied by Commit; an error discards them.                          *)
(***************************************************************************)
EXTENDS Integers, Sequences, FiniteSets, TLC

(* ------------------------------ bounds -------------------------------- *)
NumProducts == 2
MaxQty == 1
MaxSpecLen == 2
MaxOrders == 3
MaxOps == 2
MaxPrice == 2

Workers == {1, 2}
Products == 1..NumProducts
OrderIds == 1..MaxOrders

(* ------------------------- program constants -------------------------- *)
HTTP_200 == 200
HTTP_201 == 201
HTTP_204 == 204
HTTP_400 == 400
HTTP_401 == 401
HTTP_403 == 403
HTTP_404 == 404
HTTP_500 == 500

PENDING == "pending"
CONFIRMED == "confirmed"

Anonymous == "anonymous"
Users == {"admin", "user1", "user2"}
Callers == Users \cup {Anonymous}

is_staff(u) == u = "admin"

(* ------------------------------ inputs -------------------------------- *)
Row == [product : Products, quantity : 1..MaxQty]

RECURSIVE SeqsUpTo(_, _)
SeqsUpTo(S, n) ==
    IF n = 0 THEN {<<>>}
    ELSE LET shorter == SeqsUpTo(S, n - 1)
         IN  shorter \cup {Append(s, x) : s \in {t \in shorter : Len(t) = n - 1}, x \in S}

Specs == SeqsUpTo(Row, MaxSpecLen)

\* an optional field of a request body: <<supplied, value>>
StatusOpts == {<<FALSE, PENDING>>, <<TRUE, CONFIRMED>>}
ItemsOpts == {<<FALSE, <<>>>>} \cup {<<TRUE, s>> : s \in Specs}
UserOpts == {<<FALSE, Anonymous>>, <<TRUE, "user2">>}
PriceOpts == 0..MaxPrice

VARIABLES
    products,   \* Product table: pk -> price, for the rows that exist
    orders,     \* Order table: order_id -> [user, status, created_at]
    items,      \* OrderItem table by order: order_id -> rows in pk order
    req,        \* per worker: the request in flight and its open transaction
    last,       \* per worker: the last request completed and its response
    ops,        \* requests received so far
    issued,     \* uuid4 values drawn so far
    clock       \* the database clock read by auto_now_add

vars == <<products, orders, items, req, last, ops, issued, clock>>

(* ----------------------------- requests ------------------------------- *)
NoInst == [user |-> Anonymous, status |-> PENDING, created_at |-> 0]

Data(op, caller, oid, pid, st, us, it, price) ==
    [op |-> op, caller |-> caller, oid |-> oid, pid |-> pid,
     hasStatus |-> st[1], status |-> st[2],
     hasUser |-> us[1], user |-> us[2],
     hasItems |-> it[1], specs |-> it[2], price |-> price]

NoData == Data("none", Anonymous, 0, 0, <<FALSE, PENDING>>, <<FALSE, Anonymous>>,
               <<FALSE, <<>>>>, 0)

Idle == [pc |-> "idle", d |-> NoData, inst |-> NoInst, deleted |-> FALSE,
         delRows |-> <<>>, ins |-> <<>>, seen |-> <<>>, snap |-> <<>>]

NoView == <<>>

\* the response to a request: the request it answers, the status code, the
\* order ids listed and the orders rendered
Response(d, code, ids, view) == [d |-> d, code |-> code, ids |-> ids, view |-> view]

NoResponse == Response(NoData, 0, {}, NoView)

\* a request ends: the worker is free again and the response is recorded
Finish(w, d, code, ids, view) ==
    /\ req' = [req EXCEPT ![w] = Idle]
    /\ last' = [last EXCEPT ![w] = Response(d, code, ids, view)]

\* the route, caller and target of a request, without its body
Route(d) == [NoData EXCEPT !.op = d.op, !.caller = d.caller, !.oid = d.oid,
                           !.pid = d.pid]

\* a request answered without touching the store
Refuse(w, d, code) ==
    /\ Finish(w, Route(d), code, {}, NoView)
    /\ UNCHANGED <<products, orders, items, issued, clock>>

\* a request arrives at a free worker (workers are interchangeable: the
\* lowest free one takes it)
Accept(w) ==
    /\ req[w].pc = "idle"
    /\ \A v \in Workers : v < w => req[v].pc # "idle"
    /\ ops < MaxOps
    /\ ops' = ops + 1

(* ---------------------------- permissions ----------------------------- *)
IsAuthenticated(c) == c # Anonymous
IsAdminUser(c) == c # Anonymous /\ is_staff(c)
\* DRF answers a failed permission 401 for a request without credentials
\* and 403 for an authenticated one
Denied(c) == IF c = Anonymous THEN HTTP_401 ELSE HTTP_403

\* The store the requests run against: the catalog holds every product at
\* price 1, and two orders placed earlier exist, one per normal user, both
\* still pending; the first holds any item list a create accepts.
SeedOrders ==
    (1 :> [user |-> "user1", status |-> PENDING, created_at |-> 1]) @@
    (2 :> [user |-> "user2", status |-> PENDING, created_at |-> 2])

Init ==
    /\ products = [p \in Products |-> 1]
    /\ orders = SeedOrders
    /\ \E a \in Specs :
           items = [o \in OrderIds |->
                       IF o = 1 THEN a
                       ELSE IF o = 2 THEN <<[product |-> 1, quantity |-> 1]>>
                       ELSE <<>>]
    /\ req = [w \in Workers |-> Idle]
    /\ last = [w \in Workers |-> NoResponse]
    /\ ops = 0
    /\ issued = Cardinality(DOMAIN SeedOrders)
    /\ clock = Cardinality(DOMAIN SeedOrders) + 1

(* ------------------------------ the store ------------------------------ *)
Persisted == DOMAIN orders

\* SELECT of one order's item rows (the reverse relation `items`)
ItemsOf(o) == items[o]

\* the rows of `rows` that do not reference product p (on_delete=CASCADE)
WithoutProduct(rows, p) == SelectSeq(rows, LAMBDA r : r.product # p)

\* `rows` without one occurrence of each row of `gone`: the effect of a
\* DELETE that matched the rows `gone` when it ran
RECURSIVE Minus(_, _)
Minus(rows, gone) ==
    IF gone = <<>> THEN rows
    ELSE LET g == Head(gone)
             hit == {i \in 1..Len(rows) : rows[i] = g}
         IN  IF hit = {} THEN Minus(rows, Tail(gone))
             ELSE LET k == CHOOSE i \in hit : \A j \in hit : i <= j
                  IN  Minus(SubSeq(rows, 1, k - 1) \o SubSeq(rows, k + 1, Len(rows)),
                            Tail(gone))

\* a worker is inside transaction.atomic() with the Order row written
InTx(w) == req[w].pc \in {"del", "ins", "commit"}

\* no row lock: concurrent transactions write the same order
RowLockFree_NoLock(o, w) == TRUE

\* the Order row `o` is write-locked by another worker's open transaction
\* (the UPDATE / INSERT of the header holds the row until COMMIT/ROLLBACK)
RowLockFree(o, w) == \A v \in Workers \ {w} : ~(InTx(v) /\ req[v].d.oid = o)

\* no open transaction holds an item row that references product p: an
\* inserted row holds the referenced Product row (foreign key), a deleted
\* row is held by its deleter
ProductFree(p) ==
    \A v \in Workers :
        InTx(v) => /\ \A i \in 1..Len(req[v].ins) : req[v].ins[i].product # p
                   /\ \A i \in 1..Len(req[v].delRows) : req[v].delRows[i].product # p

(* --------------------------- OrderViewSet ------------------------------ *)
\* the owner filter dropped: every caller gets every order
get_queryset_Unfiltered(c) == Persisted

\* OrderViewSet.get_queryset: staff see every order, others their own
get_queryset(c) ==
    IF is_staff(c) THEN Persisted ELSE {o \in Persisted : orders[o].user = c}

\* OrderViewSet.get_serializer_class
get_serializer_class(action) ==
    IF action \in {"create", "update"} THEN "OrderCreateSerializer"
    ELSE "OrderSerializer"

\* the fields of a body a serializer takes; the others are read-only and
\* dropped.  OrderCreateSerializer: `status`, `items` (`user` is read_only by
\* extra_kwargs); OrderSerializer: `user`, `status` (`items` is read_only)
Writable(serializer) ==
    IF serializer = "OrderCreateSerializer" THEN {"status", "items"}
    ELSE {"user", "status"}

\* serializer.validated_data of the request d
validated_data(d) ==
    LET fields == Writable(get_serializer_class(d.op)) IN
    [d EXCEPT !.hasUser = d.hasUser /\ "user" \in fields,
              !.user = IF "user" \in fields THEN d.user ELSE Anonymous,
              !.hasItems = d.hasItems /\ "items" \in fields,
              !.specs = IF "items" \in fields THEN d.specs ELSE <<>>]

\* serializer.is_valid(): every item's product must exist
\* (PrimaryKeyRelatedField of OrderItemCreateSerializer)
ItemsValid(d) ==
    LET v == validated_data(d) IN
    \A i \in 1..Len(v.specs) : v.specs[i].product \in DOMAIN products

\* the store as it would be with the statements buffered in w's open
\* transaction applied
Flushed(w) ==
    LET r == req[w]
        o == r.d.oid
    IN  IF ~InTx(w) THEN [orders |-> orders, items |-> items]
        ELSE [orders |-> (o :> r.inst) @@ orders,
              items |-> [items EXCEPT
                  ![o] = (IF r.deleted THEN Minus(items[o], r.delRows) ELSE items[o])
                         \o r.ins]]

\* leaving `with transaction.atomic()` normally: COMMIT
Committed(w) == Flushed(w)

\* the writes made before the exception stay (no atomic block around them)
RolledBack_WritesKept(w) == Flushed(w)

\* only the item writes are undone, the header write stays
RolledBack_HeaderKept(w) ==
    [orders |-> Flushed(w).orders, items |-> items]

\* leaving `with transaction.atomic()` by an exception: ROLLBACK
RolledBack(w) == [orders |-> orders, items |-> items]

\* POST /orders/ up to the start of OrderCreateSerializer.create
CreateBegin(w, in) ==
    /\ Accept(w)
    /\ \E c \in in.callers, st \in in.status, us \in in.users, it \in in.items :
       LET d == Data("create", c, 0, 0, st, us, it, 0) IN
       IF ~IsAuthenticated(c) THEN Refuse(w, d, Denied(c))
       ELSE IF ~ItemsValid(d) THEN Refuse(w, d, HTTP_400)
       ELSE IF ~validated_data(d).hasItems THEN Refuse(w, d, HTTP_500)   \* validated_data.pop('items'): KeyError
       ELSE /\ issued + Cardinality({v \in Workers : req[v].pc = "hdr"
                                                      /\ req[v].d.op = "create"}) < MaxOrders
            /\ req' = [req EXCEPT ![w] = [Idle EXCEPT !.pc = "hdr", !.d = d]]
            /\ UNCHANGED <<products, orders, items, last, issued, clock>>

\* perform_create: serializer.save(user=self.request.user), then
\* Order.objects.create(**validated_data) inside the atomic block; order_id
\* is a fresh uuid4, created_at the clock
CreateHeader(w) ==
    LET v == validated_data(req[w].d) IN
    /\ req[w].pc = "hdr"
    /\ req[w].d.op = "create"
    /\ issued' = issued + 1
    /\ clock' = clock + 1
    /\ req' = [req EXCEPT ![w].pc = IF v.specs = <<>> THEN "commit" ELSE "ins",
                          ![w].d.oid = issued + 1,
                          ![w].inst = [user |-> req[w].d.caller,
                                       status |-> IF v.hasStatus
                                                  THEN v.status ELSE PENDING,
                                       created_at |-> clock]]
    /\ UNCHANGED <<products, orders, items, last, ops>>

\* get_object() of a detail route, then the serializer's validation; the
\* request goes on at `pc`
Lookup(w, d, pc) ==
    /\ IF ~IsAuthenticated(d.caller) THEN Refuse(w, d, Denied(d.caller))
       ELSE IF d.oid \notin get_queryset(d.caller) THEN Refuse(w, d, HTTP_404)
       ELSE IF ~ItemsValid(d) THEN Refuse(w, d, HTTP_400)
       ELSE /\ req' = [req EXCEPT ![w] = [Idle EXCEPT !.pc = pc, !.d = d,
                                                      !.inst = orders[d.oid]]]
            /\ UNCHANGED <<products, orders, items, last, issued, clock>>

\* where serializer.save() of an update goes: OrderCreateSerializer.update
\* opens the atomic block, OrderSerializer inherits ModelSerializer.update
UpdateEntry(action) ==
    IF get_serializer_class(action) = "OrderCreateSerializer" THEN "hdr" ELSE "save"

\* PUT /orders/<id>/: action 'update'
UpdateBegin(w, in) ==
    /\ Accept(w)
    /\ \E c \in in.callers, o \in in.orders, st \in in.status, us \in in.users,
          it \in in.items :
           Lookup(w, Data("update", c, o, 0, st, us, it, 0), UpdateEntry("update"))

\* `if order_item_data is not None` dropped: items are always replaced
AfterHeader_AlwaysReplace(v) == "del"

\* which statement follows the header write of update()
AfterHeader(v) == IF ~v.hasItems THEN "commit" ELSE "del"

\* super().update(instance, validated_data): setattr + instance.save().
\* save() issues UPDATE and, when no row matched, INSERT (created_at is
\* then set anew by auto_now_add)
UpdateHeader(w) ==
    LET r == req[w]
        v == validated_data(r.d)
        written == [user |-> IF v.hasUser THEN v.user ELSE r.inst.user,
                    status |-> IF v.hasStatus THEN v.status ELSE r.inst.status,
                    created_at |-> IF r.d.oid \in Persisted THEN r.inst.created_at
                                   ELSE clock]
    IN  /\ r.pc = "hdr"
        /\ r.d.op = "update"
        /\ RowLockFree(r.d.oid, w)
        /\ clock' = IF r.d.oid \in Persisted THEN clock ELSE clock + 1
        /\ req' = [req EXCEPT ![w].pc = AfterHeader(v), ![w].inst = written]
        /\ UNCHANGED <<products, orders, items, last, ops, issued>>

\* instance.items.all().delete()
DeleteItems(w) ==
    /\ req[w].pc = "del"
    /\ req' = [req EXCEPT ![w].pc = IF validated_data(req[w].d).specs = <<>>
                                    THEN "commit" ELSE "ins",
                          ![w].deleted = TRUE,
                          ![w].delRows = ItemsOf(req[w].d.oid)]
    /\ UNCHANGED <<products, orders, items, last, ops, issued, clock>>

\* OrderItem.objects.create(order=order, **item): the next item of the loop
InsertItem(w) ==
    LET r == req[w]
        v == validated_data(r.d)
        item == v.specs[Len(r.ins) + 1]
    IN  /\ r.pc = "ins"
        /\ item.product \in DOMAIN products
        /\ req' = [req EXCEPT ![w].ins = Append(r.ins, item),
                              ![w].pc = IF Len(r.ins) + 1 = Len(v.specs)
                                        THEN "commit" ELSE "ins"]
        /\ UNCHANGED <<products, orders, items, last, ops, issued, clock>>

\* the same statement when the referenced product is gone: the foreign key
\* fails, the exception leaves the atomic block and the request ends
InsertItemFails(w) ==
    LET r == req[w]
        item == validated_data(r.d).specs[Len(r.ins) + 1]
        db == RolledBack(w)
    IN  /\ r.pc = "ins"
        /\ item.product \notin DOMAIN products
        /\ orders' = db.orders
        /\ items' = db.items
        /\ Finish(w, r.d, HTTP_500, {}, NoView)
        /\ UNCHANGED <<products, ops, issued, clock>>

\* the end of the atomic block, then the response
Commit(w) ==
    LET r == req[w]
        db == Committed(w)
    IN  /\ r.pc = "commit"
        /\ orders' = db.orders
        /\ items' = db.items
        /\ Finish(w, r.d, IF r.d.op = "create" THEN HTTP_201 ELSE HTTP_200,
                  {r.d.oid}, NoView)
        /\ UNCHANGED <<products, ops, issued, clock>>

\* PATCH /orders/<id>/: action 'partial_update'
PatchBegin(w, in) ==
    /\ Accept(w)
    /\ \E c \in in.callers, o \in in.orders, st \in in.status, us \in in.users,
          it \in in.items :
           Lookup(w, Data("partial_update", c, o, 0, st, us, it, 0),
                  UpdateEntry("partial_update"))

\* ModelSerializer.update: setattr for each validated field, instance.save()
PatchSave(w) ==
    LET r == req[w]
        o == r.d.oid
        v == validated_data(r.d)
        written == [user |-> IF v.hasUser THEN v.user ELSE r.inst.user,
                    status |-> IF v.hasStatus THEN v.status ELSE r.inst.status,
                    created_at |-> IF o \in Persisted THEN r.inst.created_at ELSE clock]
    IN  /\ r.pc = "save"
        /\ RowLockFree(o, w)
        /\ clock' = IF o \in Persisted THEN clock ELSE clock + 1
        /\ orders' = (o :> written) @@ orders
        /\ Finish(w, r.d, HTTP_200, {o}, NoView)
        /\ UNCHANGED <<products, items, ops, issued>>

\* DELETE /orders/<id>/
DestroyBegin(w, in) ==
    /\ Accept(w)
    /\ \E c \in in.callers, o \in in.orders :
           Lookup(w, Data("destroy", c, o, 0, <<FALSE, PENDING>>, <<FALSE, Anonymous>>,
                          <<FALSE, <<>>>>, 0), "destroy")

\* instance.delete(): the order's items go with it (on_delete=CASCADE)
DestroyDelete(w) ==
    LET o == req[w].d.oid IN
    /\ req[w].pc = "destroy"
    /\ RowLockFree(o, w)
    /\ orders' = [x \in Persisted \ {o} |-> orders[x]]
    /\ items' = [items EXCEPT ![o] = <<>>]
    /\ Finish(w, req[w].d, HTTP_204, {}, NoView)
    /\ UNCHANGED <<products, ops, issued, clock>>

\* what a reader's first query returns: the Order rows of `ids`
Headers(ids) == [o \in ids |-> orders[o]]

\* GET /orders/: the filtered queryset is evaluated (first query)
ListBegin(w, in) ==
    /\ Accept(w)
    /\ \E c \in in.callers :
       LET d == Data("list", c, 0, 0, <<FALSE, PENDING>>, <<FALSE, Anonymous>>,
                     <<FALSE, <<>>>>, 0)
       IN  IF ~IsAuthenticated(c) THEN Refuse(w, d, Denied(c))
           ELSE /\ req' = [req EXCEPT ![w] =
                        [Idle EXCEPT !.pc = "prefetch", !.d = d,
                                     !.seen = Headers(get_queryset(c)),
                                     !.snap = [o \in get_queryset(c) |-> ItemsOf(o)]]]
                /\ UNCHANGED <<products, orders, items, last, issued, clock>>

\* GET /orders/<id>/: get_object() runs the same queryset for one row
RetrieveBegin(w, in) ==
    /\ Accept(w)
    /\ \E c \in in.callers, o \in in.orders :
       LET d == Data("retrieve", c, o, 0, <<FALSE, PENDING>>, <<FALSE, Anonymous>>,
                     <<FALSE, <<>>>>, 0)
       IN  IF ~IsAuthenticated(c) THEN Refuse(w, d, Denied(c))
           ELSE IF o \notin get_queryset(c) THEN Refuse(w, d, HTTP_404)
           ELSE /\ req' = [req EXCEPT ![w] =
                        [Idle EXCEPT !.pc = "prefetch", !.d = d,
                                     !.seen = Headers({o}),
                                     !.snap = [x \in {o} |-> ItemsOf(x)]]]
                /\ UNCHANGED <<products, orders, items, last, issued, clock>>

\* prefetch_related('items__product'): a second query fetches the items of
\* the orders the first query returned; OrderSerializer renders both
Prefetch(w) ==
    LET r == req[w] IN
    /\ r.pc = "prefetch"
    /\ Finish(w, r.d, HTTP_200, DOMAIN r.seen,
              [o \in DOMAIN r.seen |->
                  [user |-> r.seen[o].user, status |-> r.seen[o].status,
                   created_at |-> r.seen[o].created_at, items |-> ItemsOf(o)]])
    /\ UNCHANGED <<products, orders, items, ops, issued, clock>>

(* ------------------------ UserOrderListAPIView ------------------------- *)
\* the scoping of OrderViewSet used here too: staff get every order
user_orders_queryset_StaffAll(c) ==
    IF is_staff(c) THEN Persisted ELSE {o \in Persisted : orders[o].user = c}

\* UserOrderListAPIView.get_queryset
user_orders_queryset(c) == {o \in Persisted : orders[o].user = c}

\* GET /user-orders/
UserOrders(w, in) ==
    /\ Accept(w)
    /\ \E c \in in.callers :
       LET d == Data("user_orders", c, 0, 0, <<FALSE, PENDING>>, <<FALSE, Anonymous>>,
                     <<FALSE, <<>>>>, 0)
       IN  IF ~IsAuthenticated(c) THEN Refuse(w, d, Denied(c))
           ELSE /\ Finish(w, d, HTTP_200, user_orders_queryset(c), NoView)
                /\ UNCHANGED <<products, orders, items, issued, clock>>

(* ------------------------ ProductDetailAPIView ------------------------- *)
\* IsAuthenticated where IsAdminUser is meant
ProductPermission_Authenticated(method, c) ==
    IF method \in {"POST", "PUT", "PATCH", "DELETE"} THEN IsAuthenticated(c) ELSE TRUE

\* ProductDetailAPIView.get_permissions
ProductPermission(method, c) ==
    IF method \in {"POST", "PUT", "PATCH", "DELETE"} THEN IsAdminUser(c) ELSE TRUE

ProductData(op, c, p, price) ==
    Data(op, c, 0, p, <<FALSE, PENDING>>, <<FALSE, Anonymous>>, <<FALSE, <<>>>>, price)

\* GET /products/<pk>/
ProductGet(w, in) ==
    /\ Accept(w)
    /\ \E c \in in.pcallers, p \in in.products :
       LET d == ProductData("product_get", c, p, 0) IN
       IF ~ProductPermission("GET", c) THEN Refuse(w, d, Denied(c))
       ELSE IF p \notin DOMAIN products THEN Refuse(w, d, HTTP_404)
       ELSE Refuse(w, d, HTTP_200)

\* PUT or PATCH /products/<pk>/ (ProductSerializer.validate_price)
ProductWrite(w, in) ==
    /\ Accept(w)
    /\ \E method \in {"PUT", "PATCH"}, c \in in.pcallers, p \in in.products,
          price \in in.prices :
       LET d == ProductData("product_write", c, p, price) IN
       IF ~ProductPermission(method, c) THEN Refuse(w, d, Denied(c))
       ELSE IF p \notin DOMAIN products THEN Refuse(w, d, HTTP_404)
       ELSE IF price <= 0 THEN Refuse(w, d, HTTP_400)
       ELSE /\ products' = [products EXCEPT ![p] = price]
            /\ Finish(w, d, HTTP_200, {}, NoView)
            /\ UNCHANGED <<orders, items, issued, clock>>

\* DELETE /products/<pk>/: the items that reference the product go with it
ProductDelete(w, in) ==
    /\ Accept(w)
    /\ \E c \in in.pcallers, p \in in.products :
       LET d == ProductData("product_delete", c, p, 0) IN
       IF ~ProductPermission("DELETE", c) THEN Refuse(w, d, Denied(c))
       ELSE IF p \notin DOMAIN products THEN Refuse(w, d, HTTP_404)
       ELSE /\ ProductFree(p)
            /\ products' = [x \in DOMAIN products \ {p} |-> products[x]]
            /\ items' = [o \in OrderIds |-> WithoutProduct(items[o], p)]
            /\ Finish(w, d, HTTP_204, {}, NoView)
            /\ UNCHANGED <<orders, issued, clock>>

(* --------------------------- specification ----------------------------- *)
\* The requests clients send.  Every route accepts every caller, target and
\* body; each specification below draws them from the part of that space
\* its claims are about.

\* the aggregate transaction: the owner of order 1 creates, replaces (PUT)
\* and patches, while the administrator deletes products under it
TxIn ==
    [callers |-> {"user1"}, orders |-> {1},
     status |-> StatusOpts,
     users |-> {<<FALSE, Anonymous>>}, items |-> ItemsOpts,
     pcallers |-> {"admin"}, products |-> Products, prices |-> {}]

NextTx ==
    \E w \in Workers :
        \/ CreateBegin(w, TxIn)
        \/ CreateHeader(w)
        \/ UpdateBegin(w, TxIn)
        \/ UpdateHeader(w)
        \/ DeleteItems(w)
        \/ InsertItem(w)
        \/ InsertItemFails(w)
        \/ Commit(w)
        \/ PatchBegin(w, TxIn)
        \/ PatchSave(w)
        \/ ProductDelete(w, TxIn)

SpecTx == Init /\ [][NextTx]_vars

\* readers against the aggregate transaction: the owner of order 1 lists
\* and retrieves while creates, replacements and patches commit
ReadIn ==
    [callers |-> {"user1"}, orders |-> {1},
     status |-> StatusOpts,
     users |-> {<<FALSE, Anonymous>>}, items |-> ItemsOpts,
     pcallers |-> {}, products |-> {}, prices |-> {}]

NextRead ==
    \E w \in Workers :
        \/ ListBegin(w, ReadIn)
        \/ RetrieveBegin(w, ReadIn)
        \/ Prefetch(w)
        \/ CreateBegin(w, ReadIn)
        \/ CreateHeader(w)
        \/ UpdateBegin(w, ReadIn)
        \/ UpdateHeader(w)
        \/ DeleteItems(w)
        \/ InsertItem(w)
        \/ Commit(w)
        \/ PatchBegin(w, ReadIn)
        \/ PatchSave(w)

SpecRead == Init /\ [][NextRead]_vars

\* access control of the order routes: every caller (anonymous, the two
\* normal users, the administrator) aims every order route at every order
\* id; bodies carry a status, an owner (user2) and an empty item list, or
\* omit them
AccessIn ==
    [callers |-> Callers, orders |-> OrderIds,
     status |-> StatusOpts,
     users |-> UserOpts, items |-> {<<FALSE, <<>>>>, <<TRUE, <<>>>>},
     pcallers |-> {}, products |-> {}, prices |-> {}]

NextAccess ==
    \E w \in Workers :
        \/ CreateBegin(w, AccessIn)
        \/ CreateHeader(w)
        \/ UpdateBegin(w, AccessIn)
        \/ UpdateHeader(w)
        \/ DeleteItems(w)
        \/ Commit(w)
        \/ PatchBegin(w, AccessIn)
        \/ PatchSave(w)
        \/ DestroyBegin(w, AccessIn)
        \/ DestroyDelete(w)
        \/ ListBegin(w, AccessIn)
        \/ RetrieveBegin(w, AccessIn)
        \/ Prefetch(w)
        \/ UserOrders(w, AccessIn)

SpecAccess == Init /\ [][NextAccess]_vars

\* the catalog routes: every caller reads, writes and deletes every product
CatalogIn ==
    [callers |-> {}, orders |-> {}, status |-> {}, users |-> {}, items |-> {},
     pcallers |-> Callers, products |-> Products, prices |-> PriceOpts]

NextCatalog ==
    \E w \in Workers :
        \/ ProductGet(w, CatalogIn)
        \/ ProductWrite(w, CatalogIn)
        \/ ProductDelete(w, CatalogIn)

SpecCatalog == Init /\ [][NextCatalog]_vars

(* ------------------------------ properties ----------------------------- *)
\* worker w takes a step of the request it is handling
Moves(w) == req[w].pc # "idle" /\ req'[w] # req[w]

\* worker w's request ends in this step
Ends(w) == req[w].pc # "idle" /\ req'[w].pc = "idle"

StoreUnchanged == orders' = orders /\ items' = items

\* every order but o, and its items, are left as they were
OthersUnchanged(o) ==
    /\ \A x \in Persisted \ {o} : x \in DOMAIN orders' /\ orders'[x] = orders[x]
    /\ \A x \in OrderIds \ {o} : items'[x] = items[x]

\* C1: a create() call carrying N item_specs persists exactly one new Order
\* with exactly those N items when every item write succeeds, and persists
\* nothing when an item write fails: no step of the call but its commit
\* changes the store, the commit adds one order whose items are the specs,
\* and the call fails only on an item whose product is missing.
C1_CreateAllOrNothing ==
    [][\A w \in Workers :
          (Moves(w) /\ req[w].d.op = "create") =>
              IF Ends(w) /\ last'[w].code = HTTP_201
              THEN LET o == req[w].d.oid IN
                   /\ o \notin Persisted
                   /\ DOMAIN orders' = Persisted \cup {o}
                   /\ orders'[o].user = req[w].d.caller
                   /\ items'[o] = req[w].d.specs
                   /\ Len(items'[o]) = Len(req[w].d.specs)
                   /\ OthersUnchanged(o)
              ELSE /\ StoreUnchanged
                   /\ Ends(w) =>
                         /\ last'[w].code = HTTP_500
                         /\ req[w].d.specs[Len(req[w].ins) + 1].product
                                \notin DOMAIN products]_vars

\* a create() call has failed after its header (and a first item) was
\* written, and its order is not in the store
C1_Witness ==
    \E w \in Workers :
        /\ last[w].d.op = "create"
        /\ last[w].code = HTTP_500
        /\ Len(last[w].d.specs) = 2
        /\ last[w].d.specs[1].product \in DOMAIN products
        /\ last[w].d.oid \notin Persisted

\* C2 (as claimed): every update request the order endpoint accepts, PUT or
\* PATCH, that supplies item_specs and succeeds leaves the order with
\* exactly the supplied items and no other order changed.
C2_EveryUpdateReplacesItems ==
    [][\A w \in Workers :
          (Ends(w) /\ req[w].d.op \in {"update", "partial_update"}
                   /\ req[w].d.hasItems /\ last'[w].code = HTTP_200) =>
              /\ items'[req[w].d.oid] = req[w].d.specs
              /\ OthersUnchanged(req[w].d.oid)]_vars

\* C3: an update that omits item_specs never changes the item set: no step
\* of such a call (PUT or PATCH) changes any item row, whatever it does to
\* the header.
C3_OmittedItemsUntouched ==
    [][\A w \in Workers :
          (Moves(w) /\ req[w].d.op \in {"update", "partial_update"}
                    /\ ~req[w].d.hasItems) => items' = items]_vars

\* an update() without item_specs has overwritten the status of an order
\* that still holds its items
C3_Witness ==
    \E w \in Workers :
        /\ last[w].d.op = "update"
        /\ last[w].code = HTTP_200
        /\ ~last[w].d.hasItems
        /\ last[w].d.hasStatus
        /\ orders[last[w].d.oid].status = last[w].d.status
        /\ orders[last[w].d.oid].status # PENDING
        /\ items[last[w].d.oid] # <<>>

\* C4: an update() that fails while writing a new item rolls back whole:
\* the failing step, like every step of the call before it (the header
\* write, the deletion of the old items, the earlier inserts), leaves the
\* order's header and items in the store as they were.
C4_FailedUpdateRollsBack ==
    [][\A w \in Workers :
          (Moves(w) /\ req[w].d.op = "update"
                    /\ ~(Ends(w) /\ last'[w].code = HTTP_200)) =>
              /\ StoreUnchanged
              /\ Ends(w) => last'[w].code = HTTP_500]_vars

\* an update() that supplied a new status and new items has failed, and the
\* order still has its old status and its old items
C4_Witness ==
    \E w \in Workers :
        /\ last[w].d.op = "update"
        /\ last[w].code = HTTP_500
        /\ last[w].d.hasStatus
        /\ last[w].d.status # PENDING
        /\ orders[last[w].d.oid].status = PENDING
        /\ items[last[w].d.oid] # <<>>
        /\ items[last[w].d.oid] # last[w].d.specs

\* both workers' last requests are committed update() calls on order o that
\* supplied item_specs
BothUpdated(o) ==
    \A w \in Workers :
        /\ last[w].d.op = "update"
        /\ last[w].code = HTTP_200
        /\ last[w].d.hasItems
        /\ last[w].d.oid = o

\* C10: when two update() calls on the same order, each supplying
\* item_specs, both commit, the order's items are exactly the item_specs
\* of one of the two calls.
C10_LastWriterWins ==
    \A o \in OrderIds :
        BothUpdated(o) => \E w \in Workers : items[o] = last[w].d.specs

\* two update() calls on order 1 overlapped and both committed: the first
\* committer set a status, the second wrote back the status it had loaded
\* before that commit, and the two supplied different non-empty items
C10_Witness ==
    /\ BothUpdated(1)
    /\ \E w \in Workers, v \in Workers :
          /\ last[w].d.hasStatus /\ last[w].d.status # PENDING
          /\ ~last[v].d.hasStatus
          /\ orders[1].status = PENDING
          /\ last[w].d.specs # <<>> /\ last[v].d.specs # <<>>
          /\ last[w].d.specs # last[v].d.specs
          /\ items[1] = last[v].d.specs

\* a request arrives at worker w in this step
Receives(w) ==
    /\ ops' # ops
    /\ req[w].pc = "idle"
    /\ \A v \in Workers : v < w => req[v].pc # "idle"

\* the request that arrives at w in this step, and whether it was answered
\* at once
Arrived(w) == IF req'[w].pc # "idle" THEN req'[w].d ELSE last'[w].d
Answered(w, code) == req'[w].pc = "idle" /\ last'[w].code = code

OwnedBy(c) == {o \in Persisted : orders[o].user = c}

\* C5 (as claimed): a reader of the order routes sees each order either
\* entirely as it was before a concurrent write or entirely as it is after
\* it: the status and the items rendered for an order are those of the
\* order when the reader's first query ran, or those of the order now.
C5_ReaderSeesWholeAggregate ==
    [][\A w \in Workers :
          (Ends(w) /\ req[w].d.op \in {"list", "retrieve"}) =>
              \A o \in DOMAIN req[w].seen \cap Persisted :
                  LET shown == last'[w].view[o] IN
                  \/ /\ shown.status = req[w].seen[o].status
                     /\ shown.items = req[w].snap[o]
                  \/ /\ shown.status = orders[o].status
                     /\ shown.items = items[o]]_vars

\* C6 (as claimed): owner, order_id and created_at of a persisted order
\* never change, and a created order is owned by the requesting identity.
C6_OwnerAndCreatedImmutable ==
    [][/\ \A o \in Persisted \cap DOMAIN orders' :
              /\ orders'[o].user = orders[o].user
              /\ orders'[o].created_at = orders[o].created_at
       /\ \A w \in Workers :
              (Ends(w) /\ req[w].d.op = "create" /\ last'[w].code = HTTP_201) =>
                  orders'[req[w].d.oid].user = req[w].d.caller]_vars

OrderRoutes == {"create", "update", "partial_update", "destroy", "list", "retrieve"}
DetailRoutes == {"update", "partial_update", "destroy", "retrieve"}

\* C7: on /orders/ an unauthenticated request is refused (401) for every
\* route; a non-staff caller aiming a detail route at another user's order
\* is refused (404) with the store unchanged; the owner and staff are let
\* through to every order; a list shows a non-staff caller exactly their
\* own orders and staff every order.
C7_OrdersScopedToOwner ==
    [][\A w \in Workers :
          /\ Receives(w) =>
                LET d == Arrived(w)
                    c == d.caller
                IN  d.op \in OrderRoutes =>
                      /\ c = Anonymous => Answered(w, HTTP_401) /\ StoreUnchanged
                      /\ (d.op \in DetailRoutes /\ c # Anonymous /\ ~is_staff(c)
                            /\ d.oid \in Persisted /\ orders[d.oid].user # c) =>
                             Answered(w, HTTP_404) /\ StoreUnchanged
                      /\ (d.op \in DetailRoutes /\ c # Anonymous /\ d.oid \in Persisted
                            /\ (is_staff(c) \/ orders[d.oid].user = c)) =>
                             /\ req'[w].pc # "idle"
                             /\ IF d.op = "retrieve"
                                THEN req'[w].seen = (d.oid :> orders[d.oid])
                                ELSE req'[w].inst = orders[d.oid]
                      /\ (d.op = "list" /\ c # Anonymous) =>
                             DOMAIN req'[w].seen =
                                 IF is_staff(c) THEN Persisted ELSE OwnedBy(c)
          /\ (Ends(w) /\ req[w].d.op \in {"list", "retrieve"}) =>
                /\ last'[w].code = HTTP_200
                /\ last'[w].ids = DOMAIN req[w].seen]_vars

\* a normal user's update, patch or delete aimed at the other user's order
\* was answered 404 and the order is still there
C7_Witness ==
    \E w \in Workers :
        /\ last[w].d.op \in {"update", "partial_update", "destroy"}
        /\ last[w].d.caller = "user2"
        /\ last[w].code = HTTP_404
        /\ last[w].d.oid \in Persisted
        /\ orders[last[w].d.oid].user = "user1"

\* C8: GET /user-orders/ without credentials answers 401 and lists nothing;
\* with credentials it lists exactly the caller's own orders, for staff too.
C8_UserOrdersOwnOnly ==
    [][\A w \in Workers :
          (Receives(w) /\ Arrived(w).op = "user_orders") =>
              LET c == Arrived(w).caller IN
              IF c = Anonymous
              THEN Answered(w, HTTP_401) /\ last'[w].ids = {}
              ELSE /\ Answered(w, HTTP_200)
                   /\ last'[w].ids = OwnedBy(c)
                   /\ \A o \in last'[w].ids : orders[o].user = c]_vars

\* the administrator listed /user-orders/ and got none of the orders the
\* normal users hold
C8_Witness ==
    \E w \in Workers :
        /\ last[w].d.op = "user_orders"
        /\ last[w].d.caller = "admin"
        /\ last[w].code = HTTP_200
        /\ last[w].ids = {}
        /\ \E o \in Persisted : orders[o].user = "user1"
        /\ \E o \in Persisted : orders[o].user = "user2"

\* C9: GET on a product that exists answers 200 to any caller; DELETE, PUT
\* and PATCH answer 401 without credentials and 403 to a non-staff caller
\* and leave the catalog and the items unchanged; DELETE by staff answers
\* 204 and the product is gone.
C9_ProductWritesAdminOnly ==
    [][\A w \in Workers :
          Receives(w) =>
              LET d == Arrived(w)
                  c == d.caller
              IN  /\ (d.op = "product_get" /\ d.pid \in DOMAIN products) =>
                         Answered(w, HTTP_200) /\ products' = products
                  /\ (d.op \in {"product_write", "product_delete"} /\ c = Anonymous) =>
                         Answered(w, HTTP_401) /\ products' = products /\ items' = items
                  /\ (d.op \in {"product_write", "product_delete"} /\ c # Anonymous
                        /\ ~is_staff(c)) =>
                         Answered(w, HTTP_403) /\ products' = products /\ items' = items
                  /\ (d.op = "product_delete" /\ c # Anonymous /\ is_staff(c)
                        /\ d.pid \in DOMAIN products) =>
                         Answered(w, HTTP_204) /\ d.pid \notin DOMAIN products']_vars

\* a normal user's DELETE was answered 403 and the product is persisted,
\* after the administrator's DELETE of the other product removed it
C9_Witness ==
    \E w \in Workers :
        /\ last[w].d.op = "product_delete"
        /\ last[w].d.caller = "user1"
        /\ last[w].code = HTTP_403
        /\ last[w].d.pid \in DOMAIN products
        /\ DOMAIN products # Products

====
